---- MODULE Spec2Model ----
(***************************************************************************)
(* HabitsTracker (src/HabitsTracker.py): the calendar state of CalendarApp *)
(* and the per-month files of DataManager.                                 *)
(*                                                                         *)
(* Text (a habit name, the text of a selector) is a sequence of one-       *)
(* character strings.  A file of the data directory is a record            *)
(* [readable, data]: readable = FALSE stands for any bytes pickle.load     *)
(* rejects, and data is then what a reader that ignored the error would    *)
(* make of the bytes.  A pickled dict is a record; a key the dict lacks is *)
(* a field the record lacks.                                               *)
(***************************************************************************)
EXTENDS Integers, Sequences, FiniteSets, TLC

VARIABLES
    current_year,    \* CalendarApp.current_year
    current_month,   \* CalendarApp.current_month
    initialized,     \* CalendarApp.initialized
    habit_entries,   \* row_index -> text of the Entry widget of that row
    calendar_frame,  \* row_index -> (column -> background of the day cell)
    status_text,     \* CalendarApp.status_text
    year_var,        \* text of the year selector
    month_var,       \* text of the month selector
    files,           \* the data directory: file name -> file content
    running,         \* the root window exists (FALSE after _on_close)
    last,            \* history: the operation that ran last and what it did
    departed,        \* history: (year, month) -> grid held when the month was last left with a successful save
    edits,           \* history: number of edits made (cell clicks, typing)
    navs,            \* history: number of calendar updates after startup
    fails,           \* history: number of failed saves
    budget           \* the edits, calendar updates and failed saves a run is followed for

vars == <<current_year, current_month, initialized, habit_entries, calendar_frame,
          status_text, year_var, month_var, files, running, last, departed,
          edits, navs, fails, budget>>

prog == <<current_year, current_month, initialized, habit_entries, calendar_frame,
          status_text, year_var, month_var, files, running>>

----------------------------------------------------------------------------
(* Bounds of the model *)

MaxEdits == 2
MaxNavs == 1
ReturnNavs == 2
MaxFails == 1

----------------------------------------------------------------------------
(* AppConfig *)

MAX_HABIT_ROWS == 10
START_ROW_INDEX == 2
YEAR_RANGE == 2020..2025
InYearRangeInclusive(year) == year \in 2020..2026
\* year in self.config.YEAR_RANGE
InYearRange(year) == year \in YEAR_RANGE
COLOR_COMPLETED == "light green"
COLOR_DEFAULT == "white"

\* background of a tk.Entry created without a background option
ENTRY_BACKGROUND == "entry default"

NoText == << >>

Status(kind) == [kind |-> kind, year |-> 0, month |-> 0, habits |-> << >>]
STATUS_SAVED(year, month) == [kind |-> "SAVED", year |-> year, month |-> month, habits |-> << >>]
STATUS_SAVE_ERROR == Status("SAVE_ERROR")
STATUS_EMPTY_DATA == Status("EMPTY_DATA")
STATUS_NO_HABITS == Status("NO_HABITS")
STATUS_HABITS_LIST(habits) == [kind |-> "HABITS_LIST", year |-> 0, month |-> 0, habits |-> habits]
STATUS_INVALID_DATE == Status("INVALID_DATE")
STATUS_INVALID_INPUT == Status("INVALID_INPUT")
STATUS_BLANK == Status("")

----------------------------------------------------------------------------
(* calendar.monthrange(year, month)[1] *)

IsLeap(year) == (year % 4 = 0) /\ ((year % 100 # 0) \/ (year % 400 = 0))

DaysInMonth(year, month) ==
    IF month = 2 THEN (IF IsLeap(year) THEN 29 ELSE 28)
    ELSE IF month \in {4, 6, 9, 11} THEN 30 ELSE 31

----------------------------------------------------------------------------
(* Text: str(int), int(str), str.strip() *)

Digits == <<"0", "1", "2", "3", "4", "5", "6", "7", "8", "9">>

RECURSIVE StrOf(_)
StrOf(n) == IF n < 10 THEN <<Digits[n + 1]>> ELSE StrOf(n \div 10) \o <<Digits[(n % 10) + 1]>>

DigitValue(c) == IF \E d \in 1..10 : Digits[d] = c
                 THEN (CHOOSE d \in 1..10 : Digits[d] = c) - 1
                 ELSE -1

\* int(text): the number, or -1 for a ValueError
RECURSIVE IntOfFrom(_, _)
IntOfFrom(text, acc) ==
    IF text = << >> THEN acc
    ELSE IF DigitValue(Head(text)) < 0 THEN -1
    ELSE IntOfFrom(Tail(text), 10 * acc + DigitValue(Head(text)))

IntOf(text) == IF text = << >> THEN -1 ELSE IntOfFrom(text, 0)

RECURSIVE LStrip(_)
LStrip(text) == IF text # << >> /\ Head(text) = " " THEN LStrip(Tail(text)) ELSE text

RECURSIVE RStrip(_)
RStrip(text) == IF text # << >> /\ text[Len(text)] = " "
                THEN RStrip(SubSeq(text, 1, Len(text) - 1)) ELSE text

Strip(text) == RStrip(LStrip(text))

----------------------------------------------------------------------------
(* DataManager *)

Pickled(data) == [readable |-> TRUE, data |-> data]
\* a file that open(.., "wb") has emptied and that was not written in full
Truncated == [readable |-> FALSE, data |-> << >>]

\* f"data/habits_{year}_{month}.pkl"
GetFilename(year, month) ==
    <<"data/habits_">> \o StrOf(year) \o <<"_">> \o StrOf(month) \o <<".pkl">>

Put(fs, key, content) ==
    [k \in DOMAIN fs \cup {key} |-> IF k = key THEN content ELSE fs[k]]

\* outcome: "ok"; "open_fail" (open raises, the file is untouched);
\* "write_fail" (open has truncated the file, then the dump or the close raises)
Outcomes == {"ok", "open_fail", "write_fail"}

SaveDataLost(fs, year, month, data, outcome) ==
    [files |-> fs, ok |-> (data # << >> /\ outcome = "ok")]

SaveData(fs, year, month, data, outcome) ==
    IF data = << >> THEN [files |-> fs, ok |-> FALSE]
    ELSE LET filename == GetFilename(year, month) IN
         CASE outcome = "ok" -> [files |-> Put(fs, filename, Pickled(data)), ok |-> TRUE]
           [] outcome = "open_fail" -> [files |-> fs, ok |-> FALSE]
           [] outcome = "write_fail" -> [files |-> Put(fs, filename, Truncated), ok |-> FALSE]

LoadDataUnguarded(fs, year, month) ==
    LET filename == GetFilename(year, month) IN
    IF filename \in DOMAIN fs THEN fs[filename].data ELSE << >>

LoadData(fs, year, month) ==
    LET filename == GetFilename(year, month) IN
    IF filename \in DOMAIN fs
    THEN (IF fs[filename].readable THEN fs[filename].data ELSE << >>)
    ELSE << >>

----------------------------------------------------------------------------
(* CalendarApp: the pure parts *)

RowIndices == START_ROW_INDEX..(START_ROW_INDEX + MAX_HABIT_ROWS - 1)

CollectCurrentDataShortMonth(year, month, entries, frame) ==
    [i \in 1..MAX_HABIT_ROWS |->
        <<[text |-> entries[START_ROW_INDEX + i - 1], bg |-> ENTRY_BACKGROUND]>>
        \o [j \in 1..(DaysInMonth(year, month) - 1) |->
               [bg |-> frame[START_ROW_INDEX + i - 1][j]]]]

\* _collect_current_data: one list per habit row, the name dict first, then
\* one dict per day of the current month
CollectCurrentData(year, month, entries, frame) ==
    LET days_in_month == DaysInMonth(year, month)
        NameDict(row_index) ==
            IF row_index \in DOMAIN entries
            THEN [text |-> entries[row_index], bg |-> ENTRY_BACKGROUND]
            ELSE [text |-> NoText, bg |-> COLOR_DEFAULT]
        CellDict(row_index, j) ==
            IF row_index \in DOMAIN frame /\ j \in DOMAIN frame[row_index]
            THEN [bg |-> frame[row_index][j]]
            ELSE [bg |-> COLOR_DEFAULT]
        RowData(row_index) ==
            <<NameDict(row_index)>> \o [j \in 1..days_in_month |-> CellDict(row_index, j)]
    IN [i \in 1..MAX_HABIT_ROWS |-> RowData(START_ROW_INDEX + i - 1)]

\* dict.get('text') of a name dict, '' when the key is missing
GetText(dict) == IF "text" \in DOMAIN dict THEN dict.text ELSE NoText

CreateHabitEntryBlank(row_index, loaded_data) == NoText

\* _create_habit_entry: the text the new Entry holds
CreateHabitEntry(row_index, loaded_data) ==
    LET row_offset == row_index - START_ROW_INDEX IN
    IF /\ loaded_data # << >>
       /\ 0 <= row_offset /\ row_offset < Len(loaded_data)
       /\ loaded_data[row_offset + 1] # << >>
       /\ GetText(loaded_data[row_offset + 1][1]) # NoText
    THEN loaded_data[row_offset + 1][1].text
    ELSE NoText

RestoreCellBackgroundShifted(row_index, col_index, loaded_data) ==
    LET row_offset == row_index - START_ROW_INDEX IN
    IF loaded_data = << >> \/ row_offset >= Len(loaded_data) THEN COLOR_DEFAULT
    ELSE LET row == loaded_data[row_offset + 1] IN
         IF row # << >> /\ col_index + 1 < Len(row)
         THEN (IF "bg" \in DOMAIN row[col_index + 2] THEN row[col_index + 2].bg ELSE COLOR_DEFAULT)
         ELSE COLOR_DEFAULT

\* _create_day_cell with _restore_cell_background: the background of the new cell
RestoreCellBackground(row_index, col_index, loaded_data) ==
    LET row_offset == row_index - START_ROW_INDEX IN
    IF loaded_data = << >> \/ row_offset >= Len(loaded_data) THEN COLOR_DEFAULT
    ELSE LET row == loaded_data[row_offset + 1] IN
         IF row # << >> /\ col_index < Len(row)
         THEN (IF "bg" \in DOMAIN row[col_index + 1] THEN row[col_index + 1].bg ELSE COLOR_DEFAULT)
         ELSE COLOR_DEFAULT

RenderCalendarBodyLoadedRows(year, month, loaded_data) ==
    LET days_in_month == DaysInMonth(year, month)
        rows == START_ROW_INDEX..(START_ROW_INDEX + Len(loaded_data) - 1)
    IN [entries |-> [r \in rows |-> CreateHabitEntry(r, loaded_data)],
        frame |-> [r \in rows |->
                      [j \in 1..days_in_month |-> RestoreCellBackground(r, j, loaded_data)]]]

\* _render_calendar_body: the widgets it creates
RenderCalendarBody(year, month, loaded_data) ==
    LET days_in_month == DaysInMonth(year, month) IN
    [entries |-> [r \in RowIndices |-> CreateHabitEntry(r, loaded_data)],
     frame |-> [r \in RowIndices |->
                   [j \in 1..days_in_month |-> RestoreCellBackground(r, j, loaded_data)]]]

\* _display_all_habits: the status text it sets
DisplayAllHabits(entries) ==
    LET Named(r) == r \in DOMAIN entries /\ Strip(entries[r]) # NoText
        all == [i \in 1..MAX_HABIT_ROWS |-> START_ROW_INDEX + i - 1]
        named == SelectSeq(all, Named)
        habit_texts == [n \in 1..Len(named) |->
                           <<named[n] - START_ROW_INDEX + 1, Strip(entries[named[n]])>>]
    IN IF habit_texts # << >> THEN STATUS_HABITS_LIST(habit_texts) ELSE STATUS_NO_HABITS

ToggledColorSticky(current_color) == COLOR_COMPLETED

\* _toggle_cell_status: the new background
ToggledColor(current_color) ==
    IF current_color = COLOR_DEFAULT THEN COLOR_COMPLETED ELSE COLOR_DEFAULT

\* _save_current_data: the files and status text it leaves, and how the save went
SaveCurrentData(init, year, month, entries, frame, fs, status, outcome) ==
    IF ~init THEN [files |-> fs, status_text |-> status, save |-> "none"]
    ELSE LET data == CollectCurrentData(year, month, entries, frame) IN
         IF data = << >>
         THEN [files |-> fs, status_text |-> STATUS_EMPTY_DATA, save |-> "none"]
         ELSE LET r == SaveData(fs, year, month, data, outcome) IN
              IF r.ok
              THEN [files |-> r.files, status_text |-> STATUS_SAVED(year, month), save |-> "ok"]
              ELSE [files |-> r.files, status_text |-> STATUS_SAVE_ERROR, save |-> "fail"]

----------------------------------------------------------------------------
(* The environment: the clock at launch, the data directory found at launch, *)
(* what the user types and which cells the user clicks                       *)

StartDates == {<<2024, 2>>, <<2025, 12>>, <<2026, 1>>}

Exercise == <<"E", "x", "e", "r", "c", "i", "s", "e">>
Names == {NoText, Exercise}

\* a snapshot with fewer rows and days than a month has, an empty row, and
\* dicts that lack a key
PartialData ==
    << <<[text |-> Exercise, bg |-> ENTRY_BACKGROUND],
         [bg |-> COLOR_COMPLETED], [bg |-> COLOR_DEFAULT], [bg |-> COLOR_COMPLETED]>>,
       << >>,
       <<[bg |-> ENTRY_BACKGROUND], [text |-> <<"x">>], [bg |-> COLOR_COMPLETED]>>,
       <<[text |-> <<" ">>, bg |-> ENTRY_BACKGROUND]>> >>

\* the data directory found at launch: some months never saved, some saved by
\* another version of the program, some unreadable
\* a file whose bytes pickle.load rejects
Corrupt == [readable |-> FALSE, data |-> PartialData]

UsedDir ==
    [k \in {GetFilename(2024, 1), GetFilename(2024, 2),
            GetFilename(2025, 11), GetFilename(2025, 12)} |->
        IF k \in {GetFilename(2024, 2), GetFilename(2025, 11)}
        THEN Pickled(PartialData) ELSE Corrupt]
Seeds == {UsedDir}

\* the values the selectors offer beside the one they show
OfferedYears == {StrOf(2024)}
OfferedMonths == {}

LastRow == START_ROW_INDEX + MAX_HABIT_ROWS - 1
\* the cells the user clicks (the first and the last of the grid) and the rows
\* the user names
ClickCells(year, month) == {<<START_ROW_INDEX, 1>>, <<LastRow, DaysInMonth(year, month)>>}
TypeRows == {START_ROW_INDEX}

----------------------------------------------------------------------------
(* History *)

\* op: the handler that ran last; loaded: it rebuilt the grid from the files;
\* save, year, month, data: how its save went, under which key, and the
\* snapshot a failed save did not write; ty, tm: the month a navigation asked
\* for; row, col, before: the cell a click toggled and its background before;
\* again, origin: the click before it toggled the same cell, and the
\* background of the cell before that click
NoOp == [op |-> "launch", save |-> "none", loaded |-> FALSE,
         row |-> 0, col |-> 0, before |-> "", again |-> FALSE, origin |-> "",
         year |-> 0, month |-> 0, ty |-> 0, tm |-> 0, data |-> << >>]

NavOps == {"change_month", "change_year", "update_click"}

Grid(entries, frame) == [entries |-> entries, frame |-> frame]

Remove(f, key) == [k \in DOMAIN f \ {key} |-> f[k]]

FailCount(save) == IF save = "fail" THEN 1 ELSE 0
MayFail(outcome) == outcome = "ok" \/ fails < budget.fails

\* what a save of the state before the step records in the history
Saved(op, s) ==
    [NoOp EXCEPT !.op = op, !.save = s.save,
                 !.year = current_year, !.month = current_month,
                 !.data = IF s.save = "fail"
                          THEN CollectCurrentData(current_year, current_month,
                                                  habit_entries, calendar_frame)
                          ELSE << >>]

----------------------------------------------------------------------------
(* CalendarApp: the operations *)

InitWith(dates, max_edits, max_navs, max_fails) ==
    /\ budget = [edits |-> max_edits, navs |-> max_navs, fails |-> max_fails]
    /\ \E now \in dates :
          /\ current_year = now[1]
          /\ current_month = now[2]
          /\ year_var = StrOf(now[1])
          /\ month_var = StrOf(now[2])
    /\ files \in Seeds
    /\ initialized = FALSE
    /\ habit_entries = << >>
    /\ calendar_frame = << >>
    /\ status_text = STATUS_BLANK
    /\ running = TRUE
    /\ last = NoOp
    /\ departed = << >>
    /\ edits = 0
    /\ navs = 0
    /\ fails = 0

Init == InitWith(StartDates, MaxEdits, MaxNavs, MaxFails)

UpdateCalendarSaveUnderTarget(year, month, is_initial_load, outcome, op) ==
    LET saving == initialized /\ ~is_initial_load
        s == IF saving
             THEN SaveCurrentData(initialized, year, month, habit_entries,
                                  calendar_frame, files, status_text, outcome)
             ELSE [files |-> files, status_text |-> status_text, save |-> "none"]
        loaded_data == LoadData(s.files, year, month)
        body == RenderCalendarBody(year, month, loaded_data)
        old == <<current_year, current_month>>
    IN /\ (saving \/ outcome = "ok")
       /\ files' = s.files
       /\ current_year' = year
       /\ current_month' = month
       /\ habit_entries' = body.entries
       /\ calendar_frame' = body.frame
       /\ status_text' = DisplayAllHabits(body.entries)
       /\ last' = [Saved(op, s) EXCEPT !.loaded = TRUE, !.ty = year, !.tm = month]
       /\ departed' = IF s.save = "ok" THEN Put(departed, old, Grid(habit_entries, calendar_frame))
                      ELSE IF s.save = "fail" THEN Remove(departed, old)
                      ELSE departed
       /\ navs' = IF is_initial_load THEN navs ELSE navs + 1
       /\ fails' = fails + FailCount(s.save)

\* _update_calendar(year, month, is_initial_load)
UpdateCalendar(year, month, is_initial_load, outcome, op) ==
    LET saving == initialized /\ ~is_initial_load
        s == IF saving
             THEN SaveCurrentData(initialized, current_year, current_month, habit_entries,
                                  calendar_frame, files, status_text, outcome)
             ELSE [files |-> files, status_text |-> status_text, save |-> "none"]
        loaded_data == LoadData(s.files, year, month)
        body == RenderCalendarBody(year, month, loaded_data)
        old == <<current_year, current_month>>
    IN /\ (saving \/ outcome = "ok")
       /\ files' = s.files
       /\ current_year' = year
       /\ current_month' = month
       /\ habit_entries' = body.entries
       /\ calendar_frame' = body.frame
       /\ status_text' = DisplayAllHabits(body.entries)
       /\ last' = [Saved(op, s) EXCEPT !.loaded = TRUE, !.ty = year, !.tm = month]
       /\ departed' = IF s.save = "ok" THEN Put(departed, old, Grid(habit_entries, calendar_frame))
                      ELSE IF s.save = "fail" THEN Remove(departed, old)
                      ELSE departed
       /\ navs' = IF is_initial_load THEN navs ELSE navs + 1
       /\ fails' = fails + FailCount(s.save)

\* __init__ from the initial load on
Startup ==
    /\ ~initialized
    /\ UpdateCalendar(current_year, current_month, TRUE, "ok", "startup")
    /\ initialized' = TRUE
    /\ UNCHANGED <<year_var, month_var, running, edits, budget>>

\* a handler that returns without a word
Ignored(op, year, month) ==
    /\ UNCHANGED prog
    /\ last' = [NoOp EXCEPT !.op = op, !.ty = year, !.tm = month]
    /\ UNCHANGED <<departed, edits, navs, fails, budget>>

\* _change_month(delta)
ChangeMonth(delta, outcome) ==
    LET stepped == current_month + delta
        new_month == IF stepped < 1 THEN 12 ELSE IF stepped > 12 THEN 1 ELSE stepped
        new_year == IF stepped < 1 THEN current_year - 1
                    ELSE IF stepped > 12 THEN current_year + 1 ELSE current_year
    IN /\ initialized /\ running
       /\ MayFail(outcome)
       /\ IF ~InYearRange(new_year)
          THEN outcome = "ok" /\ Ignored("change_month", new_year, new_month)
          ELSE /\ navs < budget.navs
               /\ month_var' = StrOf(new_month)
               /\ year_var' = StrOf(new_year)
               /\ UpdateCalendar(new_year, new_month, FALSE, outcome, "change_month")
               /\ UNCHANGED <<initialized, running, edits, budget>>

\* _change_year(delta)
ChangeYear(delta, outcome) ==
    LET new_year == current_year + delta
    IN /\ initialized /\ running
       /\ MayFail(outcome)
       /\ IF InYearRange(new_year)
          THEN /\ navs < budget.navs
               /\ year_var' = StrOf(new_year)
               /\ UpdateCalendar(new_year, current_month, FALSE, outcome, "change_year")
               /\ UNCHANGED <<month_var, initialized, running, edits, budget>>
          ELSE outcome = "ok" /\ Ignored("change_year", new_year, current_month)

\* _on_update_button_click, with the selectors showing year_text and month_text
OnUpdateButtonClick(year_text, month_text, outcome) ==
    LET selected_year == IntOf(year_text)
        selected_month == IntOf(month_text)
    IN /\ initialized /\ running
       /\ MayFail(outcome)
       /\ year_var' = year_text
       /\ month_var' = month_text
       /\ IF selected_year < 0 \/ selected_month < 0
          THEN /\ outcome = "ok"
               /\ status_text' = STATUS_INVALID_INPUT
               /\ last' = [NoOp EXCEPT !.op = "update_click",
                                       !.ty = selected_year, !.tm = selected_month]
               /\ UNCHANGED <<current_year, current_month, initialized, habit_entries,
                              calendar_frame, files, running, departed, edits, navs, fails, budget>>
          ELSE IF ~InYearRange(selected_year) \/ ~(1 <= selected_month /\ selected_month <= 12)
          THEN /\ outcome = "ok"
               /\ status_text' = STATUS_INVALID_DATE
               /\ last' = [NoOp EXCEPT !.op = "update_click",
                                       !.ty = selected_year, !.tm = selected_month]
               /\ UNCHANGED <<current_year, current_month, initialized, habit_entries,
                              calendar_frame, files, running, departed, edits, navs, fails, budget>>
          ELSE /\ navs < budget.navs
               /\ UpdateCalendar(selected_year, selected_month, FALSE, outcome, "update_click")
               /\ UNCHANGED <<initialized, running, edits, budget>>

\* _toggle_cell_status on the day cell at (row, col)
ToggleCellStatus(row, col, outcome) ==
    LET current_color == calendar_frame[row][col]
        new_color == ToggledColor(current_color)
        frame == [calendar_frame EXCEPT ![row][col] = new_color]
        again == last.op = "toggle" /\ last.row = row /\ last.col = col
        s == SaveCurrentData(initialized, current_year, current_month, habit_entries,
                             frame, files, status_text, outcome)
    IN /\ initialized /\ running
       /\ edits < budget.edits
       /\ MayFail(outcome)
       /\ calendar_frame' = frame
       /\ files' = s.files
       /\ status_text' = s.status_text
       /\ last' = [NoOp EXCEPT !.op = "toggle", !.save = s.save, !.row = row, !.col = col,
                               !.before = current_color,
                               !.again = again,
                               !.origin = IF again THEN last.before ELSE current_color,
                               !.year = current_year, !.month = current_month,
                               !.data = IF s.save = "fail"
                                        THEN CollectCurrentData(current_year, current_month,
                                                                habit_entries, frame)
                                        ELSE << >>]
       /\ edits' = edits + 1
       /\ fails' = fails + FailCount(s.save)
       /\ UNCHANGED <<current_year, current_month, initialized, habit_entries,
                      year_var, month_var, running, departed, navs, budget>>

\* the user edits the text of the Entry of a row (the widget's own key handling)
TypeHabitName(row, text) ==
    /\ initialized /\ running
    /\ edits < budget.edits
    /\ habit_entries[row] # text
    /\ habit_entries' = [habit_entries EXCEPT ![row] = text]
    /\ last' = [NoOp EXCEPT !.op = "type", !.row = row]
    /\ edits' = edits + 1
    /\ UNCHANGED <<current_year, current_month, initialized, calendar_frame, status_text,
                   year_var, month_var, files, running, departed, navs, fails, budget>>

\* _on_habit_update (an Entry loses the focus)
OnHabitUpdate(outcome) ==
    LET s == SaveCurrentData(initialized, current_year, current_month, habit_entries,
                             calendar_frame, files, status_text, outcome)
    IN /\ initialized /\ running
       /\ MayFail(outcome)
       /\ files' = s.files
       /\ status_text' = DisplayAllHabits(habit_entries)
       /\ last' = Saved("habit_update", s)
       /\ fails' = fails + FailCount(s.save)
       /\ UNCHANGED <<current_year, current_month, initialized, habit_entries,
                      calendar_frame, year_var, month_var, running, departed, edits, navs, budget>>

\* _save_current_data bound to Control-s
SaveShortcut(outcome) ==
    LET s == SaveCurrentData(initialized, current_year, current_month, habit_entries,
                             calendar_frame, files, status_text, outcome)
    IN /\ initialized /\ running
       /\ MayFail(outcome)
       /\ files' = s.files
       /\ status_text' = s.status_text
       /\ last' = Saved("save", s)
       /\ fails' = fails + FailCount(s.save)
       /\ UNCHANGED <<current_year, current_month, initialized, habit_entries,
                      calendar_frame, year_var, month_var, running, departed, edits, navs, budget>>

\* _hide_status (the pointer leaves a widget), and the _display_all_habits
\* callbacks scheduled with root.after: the pointer can leave a widget at any
\* time, so the callback adds no behaviour and no timer is kept
HideStatus ==
    /\ initialized /\ running
    /\ status_text # DisplayAllHabits(habit_entries)
    /\ status_text' = DisplayAllHabits(habit_entries)
    /\ last' = [NoOp EXCEPT !.op = "hide_status"]
    /\ UNCHANGED <<current_year, current_month, initialized, habit_entries, calendar_frame,
                   year_var, month_var, files, running, departed, edits, navs, fails, budget>>

\* _on_close
OnClose(outcome) ==
    LET s == SaveCurrentData(initialized, current_year, current_month, habit_entries,
                             calendar_frame, files, status_text, outcome)
    IN /\ initialized /\ running
       /\ MayFail(outcome)
       /\ files' = s.files
       /\ status_text' = s.status_text
       /\ running' = FALSE
       /\ last' = Saved("close", s)
       /\ fails' = fails + FailCount(s.save)
       /\ UNCHANGED <<current_year, current_month, initialized, habit_entries,
                      calendar_frame, year_var, month_var, departed, edits, navs, budget>>

Next ==
    \/ Startup
    \/ \E delta \in {-1, 1}, outcome \in Outcomes : ChangeMonth(delta, outcome)
    \/ \E delta \in {-1, 1}, outcome \in Outcomes : ChangeYear(delta, outcome)
    \/ \E year_text \in {year_var} \cup OfferedYears,
          month_text \in {month_var} \cup OfferedMonths,
          outcome \in Outcomes : OnUpdateButtonClick(year_text, month_text, outcome)
    \/ \E cell \in ClickCells(current_year, current_month), outcome \in Outcomes :
          ToggleCellStatus(cell[1], cell[2], outcome)
    \/ \E row \in TypeRows, text \in Names : TypeHabitName(row, text)
    \/ \E outcome \in Outcomes : OnHabitUpdate(outcome)
    \/ \E outcome \in Outcomes : SaveShortcut(outcome)
    \/ HideStatus
    \/ \E outcome \in Outcomes : OnClose(outcome)

Spec == Init /\ [][Next]_vars

\* one launch date, followed long enough to leave a month and come back
ReturnDates == {<<2025, 12>>}
InitReturn == InitWith(ReturnDates, MaxEdits, ReturnNavs, MaxFails)
SpecReturn == InitReturn /\ [][Next]_vars

----------------------------------------------------------------------------
(* The claims *)

ActiveKey == <<current_year, current_month>>
ActiveFile == GetFilename(current_year, current_month)
ValidMonth == current_year \in 2020..2025 /\ current_month \in 1..12
IsDefaultGrid ==
    /\ DOMAIN habit_entries = RowIndices
    /\ DOMAIN calendar_frame = RowIndices
    /\ \A r \in RowIndices :
          /\ habit_entries[r] = NoText
          /\ DOMAIN calendar_frame[r] = 1..DaysInMonth(current_year, current_month)
          /\ \A j \in DOMAIN calendar_frame[r] : calendar_frame[r][j] = COLOR_DEFAULT

\* C1: when a handler has saved the active grid of a valid month and the save
\* succeeded, loading the file of the active key and rebuilding the grid from
\* it gives the names and the cell backgrounds the grid holds.
C1_SaveThenLoadRebuildsGrid ==
    (initialized /\ ValidMonth /\ last.save = "ok"
        /\ last.op \in {"toggle", "save", "habit_update"})
    => LET loaded_data == LoadData(files, current_year, current_month)
           body == RenderCalendarBody(current_year, current_month, loaded_data)
       IN /\ \A r \in RowIndices : body.entries[r] = habit_entries[r]
          /\ \A r \in RowIndices :
                \A j \in 1..DaysInMonth(current_year, current_month) :
                    body.frame[r][j] = calendar_frame[r][j]

\* C1 witness: a successful save of a grid with a named row and a marked cell.
C1_Witness ==
    /\ initialized /\ ValidMonth
    /\ last.op = "save" /\ last.save = "ok"
    /\ habit_entries[START_ROW_INDEX] = Exercise
    /\ calendar_frame[LastRow][DaysInMonth(current_year, current_month)] = COLOR_COMPLETED

\* C2: a navigation that arrives at a month which was left earlier with a
\* successful save shows the grid that month had when it was left.
C2_EditsSurviveLeavingAndReturning ==
    (last.loaded /\ last.op \in NavOps /\ ActiveKey \in DOMAIN departed)
    => Grid(habit_entries, calendar_frame) = departed[ActiveKey]

\* C2 witness: row 0 was named and its day 1 marked, another month was
\* visited, and the navigation back has just shown the name and the mark.
C2_Witness ==
    /\ last.loaded /\ last.op = "change_month"
    /\ ActiveKey \in DOMAIN departed
    /\ Cardinality(DOMAIN departed) = 2
    /\ edits = 2 /\ navs = 2 /\ fails = 0
    /\ habit_entries[START_ROW_INDEX] = Exercise
    /\ calendar_frame[START_ROW_INDEX][1] = COLOR_COMPLETED

\* C3: once the program has started, the year of the active grid is in
\* 2020..2025 and its month in 1..12.
C3_ActiveMonthInRange ==
    initialized => (current_year \in 2020..2025 /\ current_month \in 1..12)

InvalidTarget(l) == l.op \in NavOps /\ (l.ty \notin 2020..2025 \/ l.tm \notin 1..12)
InputError == {STATUS_INVALID_DATE, STATUS_INVALID_INPUT}
GridAndFilesUnchanged ==
    UNCHANGED <<current_year, current_month, habit_entries, calendar_frame, files>>

C5_FailedSaveReportedAndGridKept ==
    (last.save = "fail" /\ last.year \in 2020..2025) =>
        /\ status_text = STATUS_SAVE_ERROR
        /\ last.op # "close" => running
        /\ ActiveKey = <<last.year, last.month>>
        /\ CollectCurrentData(current_year, current_month, habit_entries, calendar_frame)
               = last.data

\* C6: a step leaves the file of every valid month that was absent or
\* readable before it either as it was or holding the complete snapshot of the
\* grid that was saved.
C6_SaveOverwritesAtomically ==
    [][\A year \in 2020..2025, month \in 1..12 :
          LET k == GetFilename(year, month) IN
          \/ k \notin DOMAIN files'
          \/ k \in DOMAIN files /\ ~files[k].readable
          \/ k \in DOMAIN files /\ files'[k] = files[k]
          \/ files'[k] = Pickled(CollectCurrentData(current_year, current_month,
                                                    habit_entries, calendar_frame))
          \/ files'[k] = Pickled(CollectCurrentData(current_year, current_month,
                                                    habit_entries', calendar_frame'))]_vars

\* C7: when the startup or a navigation has loaded a valid month whose file
\* is unreadable, the program runs with the default grid of that month as the
\* active grid and the status text shows no error.
C7_UnreadableFileGivesDefaultGrid ==
    (last.loaded /\ ValidMonth /\ ActiveFile \in DOMAIN files /\ ~files[ActiveFile].readable)
    => /\ initialized /\ running
       /\ ActiveKey = <<last.ty, last.tm>>
       /\ IsDefaultGrid
       /\ status_text = STATUS_NO_HABITS

\* C7 witness: a month step has arrived at a month whose file is unreadable
\* since before the launch.
C7_Witness ==
    /\ last.loaded /\ last.op = "change_month" /\ ValidMonth
    /\ ActiveFile \in DOMAIN files /\ files[ActiveFile] = Corrupt
    /\ IsDefaultGrid

\* C8: the grid of a valid month has 10 rows and one cell per day of the
\* month in every row, 29 in February 2024 and 28 in February 2023, after the
\* load and after every toggle, rename and save.
C8_GridHasTenRowsAndAllDays ==
    (initialized /\ ValidMonth)
    => /\ Cardinality(DOMAIN habit_entries) = 10
       /\ DOMAIN habit_entries = DOMAIN calendar_frame
       /\ \A r \in DOMAIN calendar_frame :
             /\ DOMAIN calendar_frame[r] = 1..DaysInMonth(current_year, current_month)
             /\ ActiveKey = <<2024, 2>> => Cardinality(DOMAIN calendar_frame[r]) = 29
             /\ ActiveKey = <<2023, 2>> => Cardinality(DOMAIN calendar_frame[r]) = 28
             /\ ActiveKey = <<2025, 12>> => Cardinality(DOMAIN calendar_frame[r]) = 31

\* C8 witness: a cell of February 2023 has been toggled after the month was
\* loaded.
C8_Witness ==
    /\ initialized /\ ActiveKey = <<2023, 2>>
    /\ last.op = "toggle" /\ last.col = 28
    /\ Cardinality(DOMAIN calendar_frame) = 10

\* C9: a click on the cell that the click before it toggled gives the cell
\* the background it had before the two clicks.
C9_ToggleTwiceRestores ==
    (last.op = "toggle" /\ last.again)
    => calendar_frame[last.row][last.col] = last.origin

\* C9 witness: two clicks in a row on a cell that the snapshot had marked.
C9_Witness ==
    /\ last.op = "toggle" /\ last.again
    /\ last.origin = COLOR_COMPLETED
    /\ ActiveKey = <<2024, 2>> /\ navs = 0

\* the rows of the snapshot the file of the active key holds
ActiveSnapshot == files[ActiveFile].data
HasName(snapshot, i) ==
    i <= Len(snapshot) /\ snapshot[i] # << >> /\ "text" \in DOMAIN snapshot[i][1]
HasFlag(snapshot, i, j) ==
    i <= Len(snapshot) /\ j + 1 <= Len(snapshot[i]) /\ "bg" \in DOMAIN snapshot[i][j + 1]

\* C10: when the startup or a navigation has loaded a valid month, the grid
\* is the default grid if the month has no file; if it has a readable file,
\* every name and background the snapshot holds is in the grid and every
\* other name is empty and every other background the default.
C10_LoadOrDefault ==
    (last.loaded /\ ValidMonth)
    => IF ActiveFile \notin DOMAIN files THEN IsDefaultGrid
       ELSE files[ActiveFile].readable =>
            \A i \in 1..10 :
               LET r == START_ROW_INDEX + i - 1 IN
               /\ habit_entries[r] = IF HasName(ActiveSnapshot, i)
                                     THEN ActiveSnapshot[i][1].text ELSE NoText
               /\ \A j \in 1..DaysInMonth(current_year, current_month) :
                     calendar_frame[r][j] = IF HasFlag(ActiveSnapshot, i, j)
                                            THEN ActiveSnapshot[i][j + 1].bg
                                            ELSE COLOR_DEFAULT

\* C10 witness: the startup has loaded a snapshot that lacks rows and days.
C10_Witness ==
    /\ last.loaded /\ last.op = "startup" /\ ValidMonth
    /\ ActiveFile \in DOMAIN files /\ files[ActiveFile] = Pickled(PartialData)
    /\ habit_entries[START_ROW_INDEX] = Exercise
    /\ calendar_frame[START_ROW_INDEX][1] = COLOR_COMPLETED
    /\ calendar_frame[START_ROW_INDEX][4] = COLOR_DEFAULT
    /\ habit_entries[LastRow] = NoText

\* the file of month (year, month) is readable and holds, row by row, the name
\* and the background of every day of the grid (entries, frame)
FileHoldsGrid(fs, year, month, entries, frame) ==
    LET filename == GetFilename(year, month) IN
    /\ filename \in DOMAIN fs
    /\ fs[filename].readable
    /\ LET data == fs[filename].data IN
       /\ Len(data) = MAX_HABIT_ROWS
       /\ \A i \in 1..MAX_HABIT_ROWS :
             LET row_index == START_ROW_INDEX + i - 1 IN
             /\ Len(data[i]) = DaysInMonth(year, month) + 1
             /\ data[i][1].text = entries[row_index]
             /\ \A j \in 1..DaysInMonth(year, month) :
                   data[i][j + 1].bg = frame[row_index][j]

\* C11: after a toggle whose save succeeded, the file of the active month
\* holds the names and the marks of the active grid, the toggled mark among
\* them, and loading that file rebuilds the active grid.
C11_ToggleSavesActiveGrid ==
    (last.op = "toggle" /\ last.save = "ok") =>
        /\ FileHoldsGrid(files, current_year, current_month, habit_entries, calendar_frame)
        /\ ActiveSnapshot[last.row - START_ROW_INDEX + 1][last.col + 1].bg
               = calendar_frame[last.row][last.col]
        /\ calendar_frame[last.row][last.col] # last.before
        /\ RenderCalendarBody(current_year, current_month,
                              LoadData(files, current_year, current_month))
               = Grid(habit_entries, calendar_frame)

\* C11 witness: a name was typed into row 0 and not saved, then the last day
\* of the last row was marked, and the save of that toggle succeeded.
C11_Witness ==
    /\ last.op = "toggle" /\ last.save = "ok"
    /\ last.row = LastRow /\ last.col = DaysInMonth(current_year, current_month)
    /\ calendar_frame[last.row][last.col] = COLOR_COMPLETED
    /\ habit_entries[START_ROW_INDEX] = Exercise
    /\ edits = 2 /\ navs = 0
    /\ ActiveSnapshot[1][1].text = Exercise

\* the months a session started from StartDates can make active
ReachableMonths == (2020..2026) \X (1..12)

\* a step leaves the file of every month other than the active one as it was
\* (present with the same content, or absent), and removes no file
OtherSlotsKept ==
    /\ DOMAIN files \subseteq DOMAIN files'
    /\ \A key \in ReachableMonths :
          LET k == GetFilename(key[1], key[2]) IN
          key # ActiveKey =>
            /\ k \in DOMAIN files' <=> k \in DOMAIN files
            /\ k \in DOMAIN files => files'[k] = files[k]

\* a step leaves every month whose file held a snapshot with a file that
\* still holds one, so that a load of the month does not find it absent
WrittenSlotsStayWritten ==
    \A key \in ReachableMonths :
        LET k == GetFilename(key[1], key[2]) IN
        (k \in DOMAIN files /\ files[k].readable)
            => (k \in DOMAIN files' /\ files'[k].readable)

\* C12: no step removes a file, every step leaves the files of the months
\* other than the one active when it starts as they were, and a month whose
\* file held a snapshot is never without one afterwards.
C12_SlotsKeptAndNeverAbsent ==
    [][OtherSlotsKept /\ WrittenSlotsStayWritten]_vars

\* the step is the first load of the session
FirstLoad == last'.op = "startup"

\* the step is a navigation that was accepted and has shown its target month
ValidNavigation == last'.op \in NavOps /\ last'.loaded

\* C13: the first load of a session writes no file; every accepted
\* navigation saves the grid it leaves under the month it leaves, leaves the
\* file of a different target month as it was, and shows the grid loaded
\* from the target's file as it is after that save.
C13_NavigationSavesThenLoads ==
    [][/\ FirstLoad => files' = files
       /\ ValidNavigation =>
            /\ last'.save # "none"
            /\ <<last'.year, last'.month>> = ActiveKey
            /\ last'.save = "ok" =>
                  FileHoldsGrid(files', current_year, current_month,
                                habit_entries, calendar_frame)
            /\ ActiveKey' # ActiveKey =>
                  /\ ActiveFile' \in DOMAIN files' <=> ActiveFile' \in DOMAIN files
                  /\ ActiveFile' \in DOMAIN files => files'[ActiveFile'] = files[ActiveFile']
            /\ ActiveKey' = <<last'.ty, last'.tm>>
            /\ Grid(habit_entries', calendar_frame')
                  = RenderCalendarBody(current_year', current_month',
                                       LoadData(files', current_year', current_month'))]_vars

\* C13 witness: a month whose grid was edited has just been left by a month
\* step, its file holds the grid it was left with, and another month is shown.
C13_Witness ==
    /\ last.op = "change_month" /\ last.loaded /\ last.save = "ok"
    /\ <<last.year, last.month>> # ActiveKey
    /\ <<last.year, last.month>> \in DOMAIN departed
    /\ edits = 2 /\ navs = 1
    /\ LET left == departed[<<last.year, last.month>>] IN
       /\ left.entries[START_ROW_INDEX] = Exercise
       /\ FileHoldsGrid(files, last.year, last.month, left.entries, left.frame)
============================================================================
